---- MODULE Spec2Model ----
(***************************************************************************)
(* Model of collage.py: the grid solver calc_grid, the square crop          *)
(* crop_to_square, the compositor create_collage and its wrapper            *)
(* create_auto_grid_collage.                                                *)
(*                                                                          *)
(* Three specifications share the module:                                   *)
(*   SpecGrid  runs calc_grid(n) one loop iteration at a time;              *)
(*   SpecCrop  applies crop_to_square to an image size and a gravity;       *)
(*   Spec      runs create_collage / create_auto_grid_collage, one cell of  *)
(*             the nested loop per step.                                    *)
(***************************************************************************)
EXTENDS Integers, Sequences, FiniteSets

VARIABLES
    \* ---- calc_grid (SpecGrid) ----
    n,                \* argument of calc_grid
    x,                \* loop variable of "for x in range(1, limit)"
    min_error,        \* smallest error seen so far (Infinity = float('inf'))
    result,           \* the dict under construction / the returned value
    gpc,              \* "loop" | "returned"
    \* ---- crop_to_square (SpecCrop) ----
    img_size,         \* <<width, height>> of the image handed in
    gravity,          \* gravity numerator, the value is gravity / GravityDen
    crop_out,         \* what crop_to_square returned
    cpc,              \* "call" | "returned"
    \* ---- create_collage / create_auto_grid_collage (Spec) ----
    pc,               \* "idle" | "loop" | "returned" | "raised"
    entry,            \* "none" | "create_collage" | "create_auto_grid_collage"
    image_paths,      \* sequence of sources, each named by what opening it does
    output_size,      \* <<output_width, output_height>>
    grid_cols, grid_rows,
    frame_spacing, col_spacing, row_spacing,
    crop_images_to_square, crop_gravity,
    canvas,           \* TRUE once Image.new created collage_image
    geom,             \* cell_width, cell_height, cell_size, grid_origin_x/y
    native_grid,      \* calc_grid's (rows, cols) before the orientation swap
    image_index, row, col,
    loads,            \* sequence of <<source index, row, col>>: calls of open_image
    pasted,           \* set of <<row, col, source index>>: calls of paste
    last_paste,       \* geometry of the latest paste
    printed,          \* set of messages printed
    raised,           \* exception that left the call, "none" if none
    saved             \* TRUE once collage_image.save succeeded

gridVars == <<n, x, min_error, result, gpc>>
cropVars == <<img_size, gravity, crop_out, cpc>>
argVars == <<image_paths, output_size, grid_cols, grid_rows, frame_spacing,
             col_spacing, row_spacing, crop_images_to_square, crop_gravity>>
loopVars == <<image_index, row, col, loads, pasted, last_paste>>
collageVars == <<pc, entry, argVars, canvas, geom, native_grid, loopVars,
                 printed, raised, saved>>
vars == <<gridVars, cropVars, collageVars>>

(***************************************************************************)
(* Bounds                                                                   *)
(***************************************************************************)
MaxN == 30            \* calc_grid is run for n in 0..MaxN
MaxDim == 5           \* image sides 1..MaxDim in SpecCrop (plus 600 and 800)
MaxShortPaths == 3    \* image_paths of every mix of sources up to this length
MaxLongPaths == 8     \* all-loadable image_paths up to this length
MaxGrid == 2          \* explicit grid_cols / grid_rows up to this value

(***************************************************************************)
(* Python arithmetic                                                        *)
(***************************************************************************)
Min(a, b) == IF a <= b THEN a ELSE b
Max(a, b) == IF a >= b THEN a ELSE b

\* Division rounding up instead of down.
PyFloorDiv_Ceil(a, b) == IF b > 0 THEN -((-a) \div b) ELSE -(a \div (-b))

\* a // b, flooring, for any non-zero b
PyFloorDiv(a, b) == IF b > 0 THEN a \div b ELSE (-a) \div (-b)

\* int(a / b) for b > 0: truncation towards zero
PyInt(a, b) == IF a >= 0 THEN a \div b ELSE -((-a) \div b)

\* int(math.sqrt(k)) for k >= 0
RECURSIVE IntSqrtFrom(_, _)
IntSqrtFrom(k, r) == IF (r + 1) * (r + 1) > k THEN r ELSE IntSqrtFrom(k, r + 1)
IntSqrt(k) == IntSqrtFrom(k, 0)

(***************************************************************************)
(* calc_grid                                                                *)
(***************************************************************************)
Infinity == -1        \* float('inf'); errors that are compared are >= 0

None == [kind |-> "None", error |-> 0, equation |-> "", x |-> 0, grid |-> <<0, 0>>]
EmptyDict == [kind |-> "empty", error |-> 0, equation |-> "", x |-> 0, grid |-> <<0, 0>>]
GridDict(e, eq, xx, g) == [kind |-> "dict", error |-> e, equation |-> eq, x |-> xx, grid |-> g]

\* The comparison the wrong way round: a larger error replaces a smaller one.
BelowMin_Greater(e, m) == m = Infinity \/ e > m

\* e < min_error
BelowMin(e, m) == m = Infinity \/ e < m

limit(k) == IntSqrt(k) + 2

\* The test without "error >= 0": an over-full grid is taken as well.
Accepts_NoValidity(e, m) == BelowMin(e, m)

\* "if sq_error >= 0 and sq_error < min_error"
Accepts(e, m) == e >= 0 /\ BelowMin(e, m)

\* One iteration of the loop body: <<min_error, result>> after it.
LoopBody(k, xx, m, res) ==
    LET sq_error == k - (xx * xx)
        m1 == IF Accepts(sq_error, m) THEN sq_error ELSE m
        r1 == IF Accepts(sq_error, m) THEN GridDict(sq_error, "SQ", xx, <<xx, xx>>) ELSE res
        sq2_error == k - (xx * (xx + 2))
        m2 == IF Accepts(sq2_error, m1) THEN sq2_error ELSE m1
        r2 == IF Accepts(sq2_error, m1)
              THEN GridDict(sq2_error, "SQ2", xx, <<xx, xx + 2>>) ELSE r1
    IN  <<m2, r2>>

RECURSIVE CalcGridFrom(_, _, _, _)
CalcGridFrom(k, xx, m, res) ==
    IF xx >= limit(k) THEN res
    ELSE LET s == LoopBody(k, xx, m, res) IN CalcGridFrom(k, xx + 1, s[1], s[2])

\* The whole function, as create_auto_grid_collage calls it.
calc_grid(k) == IF k < 1 THEN None ELSE CalcGridFrom(k, 1, Infinity, EmptyDict)

GridInit ==
    /\ n \in 0..MaxN
    /\ x = 1
    /\ min_error = Infinity
    /\ result = EmptyDict
    /\ gpc = "loop"

\* "if n < 1: return None"
CalcGridNone ==
    /\ gpc = "loop" /\ n < 1
    /\ result' = None
    /\ gpc' = "returned"
    /\ UNCHANGED <<n, x, min_error>>

CalcGridStep ==
    /\ gpc = "loop" /\ n >= 1 /\ x < limit(n)
    /\ LET s == LoopBody(n, x, min_error, result)
       IN  /\ min_error' = s[1]
           /\ result' = s[2]
    /\ x' = x + 1
    /\ UNCHANGED <<n, gpc>>

CalcGridReturn ==
    /\ gpc = "loop" /\ n >= 1 /\ x >= limit(n)
    /\ gpc' = "returned"
    /\ UNCHANGED <<n, x, min_error, result>>

(***************************************************************************)
(* crop_to_square                                                           *)
(***************************************************************************)
GravityDen == 4       \* gravities are multiples of 1/4, exact as floats

NoCrop == [kind |-> "none", box |-> <<0, 0, 0, 0>>, size |-> <<0, 0>>]

\* The gravity used as given, without the clamp.
ClampGravity_None(g) == g

\* gravity = max(0.0, min(1.0, gravity))
ClampGravity(g) == Max(0, Min(GravityDen, g))

\* crop_to_square(img, gravity) for an image of the given size: the result
\* is the same image ("same"), or a crop with its box and its size.
crop_to_square(size, g) ==
    LET width == size[1]
        height == size[2]
        min_dim == Min(width, height)
        gc == ClampGravity(g)
    IN  IF width = height
        THEN [kind |-> "same", box |-> <<0, 0, width, height>>, size |-> size]
        ELSE IF width > height
        THEN LET crop_width == min_dim
                 max_offset == width - crop_width
                 left == PyInt(max_offset * gc, GravityDen)
                 right == left + crop_width
             IN  [kind |-> "crop", box |-> <<left, 0, right, min_dim>>,
                  size |-> <<right - left, min_dim>>]
        ELSE LET crop_height == min_dim
                 max_offset == height - crop_height
                 top == PyInt(max_offset * gc, GravityDen)
                 bottom == top + crop_height
             IN  [kind |-> "crop", box |-> <<0, top, min_dim, bottom>>,
                  size |-> <<min_dim, bottom - top>>]

CropDims == (1..MaxDim) \cup {600, 800}
Gravities == (0 - GravityDen)..(2 * GravityDen)

CropInit ==
    /\ img_size \in CropDims \X CropDims
    /\ gravity \in Gravities
    /\ crop_out = NoCrop
    /\ cpc = "call"

CropToSquare ==
    /\ cpc = "call"
    /\ crop_out' = crop_to_square(img_size, gravity)
    /\ cpc' = "returned"
    /\ UNCHANGED <<img_size, gravity>>

(***************************************************************************)
(* open_image and Image.thumbnail                                           *)
(***************************************************************************)
\* A source is named by what opening it does:
\*   "image"        Image.open returns an image;
\*   "not_found"    FileNotFoundError (local path) or a RequestException
\*                  (URL): caught, a message is printed, None is returned;
\*   "unidentified" Image.open raises another error (e.g. the bytes are not
\*                  an image), which no except clause of open_image catches.
SourceKinds == {"image", "not_found", "unidentified"}

\* open_image without its except clauses: every failure is raised.
open_image_Uncaught(path) == IF path = "image" THEN "image" ELSE "raise"

\* open_image(path): "image", "None" or "raise"
open_image(path) ==
    CASE path = "image" -> "image"
      [] path = "not_found" -> "None"
      [] OTHER -> "raise"

\* Sizes an opened image may have.
ImgSizes == {<<6, 3>>, <<3, 6>>, <<2, 2>>}

\* img.thumbnail(size): Pillow keeps the image when it already fits, and
\* otherwise shrinks it to the box keeping the aspect ratio, the free side
\* rounded down or up (whichever is nearer the ratio) and at least 1.  The
\* rounding choice is left open: the set of sizes the image may end with.
\* Only defined for a box with positive sides.
Thumbnail(size, box) ==
    LET w == size[1]
        h == size[2]
        bx == box[1]
        by == box[2]
    IN  IF bx >= w /\ by >= h THEN {size}
        ELSE IF bx * h >= by * w
        THEN {<<Max(xx, 1), by>> : xx \in {(by * w) \div h, ((by * w) + h - 1) \div h}}
        ELSE {<<bx, Max(yy, 1)>> : yy \in {(bx * h) \div w, ((bx * h) + w - 1) \div w}}

(***************************************************************************)
(* create_collage                                                           *)
(***************************************************************************)
NoGeom == [cell_width |-> 0, cell_height |-> 0, cell_size |-> <<0, 0>>,
           grid_origin_x |-> 0, grid_origin_y |-> 0]
NoPaste == [src |-> -1, row |-> -1, col |-> -1, paste_x |-> 0, paste_y |-> 0,
            width |-> 0, height |-> 0, cell_origin_x |-> 0, cell_origin_y |-> 0]

\* Lines 100-118: the cell size and the origin of the grid block.
Geometry(size, cols, rows, fs, cs, rs, crop) ==
    LET output_width == size[1]
        output_height == size[2]
        total_col_spacing == (cols - 1) * cs
        total_row_spacing == (rows - 1) * rs
        available_width == output_width - (2 * fs) - total_col_spacing
        available_height == output_height - (2 * fs) - total_row_spacing
        cell_width == PyFloorDiv(available_width, cols)
        cell_height == PyFloorDiv(available_height, rows)
        thumb_size_val == Min(cell_width, cell_height)
        total_grid_width == (cols * cell_width) + total_col_spacing
        total_grid_height == (rows * cell_height) + total_row_spacing
    IN  [cell_width |-> cell_width,
         cell_height |-> cell_height,
         cell_size |-> IF crop THEN <<thumb_size_val, thumb_size_val>>
                       ELSE <<cell_width, cell_height>>,
         grid_origin_x |-> PyFloorDiv(output_width - total_grid_width, 2),
         grid_origin_y |-> PyFloorDiv(output_height - total_grid_height, 2)]

\* The emptiness test left out.
NoPaths_Never(paths) == FALSE

\* "if not image_paths"
NoPaths(paths) == paths = <<>>

\* Lines 92-120 of create_collage, up to the first cell of the loop.
EnterCollage(who, paths, size, cols, rows, fs, cs, rs, crop, g) ==
    /\ entry' = who
    /\ image_paths' = paths
    /\ output_size' = size
    /\ grid_cols' = cols
    /\ grid_rows' = rows
    /\ frame_spacing' = fs
    /\ col_spacing' = cs
    /\ row_spacing' = rs
    /\ crop_images_to_square' = crop
    /\ crop_gravity' = g
    /\ IF NoPaths(paths)
       THEN \* "print(...); return"
            /\ printed' = printed \cup {"Error: No image paths provided."}
            /\ pc' = "returned"
            /\ UNCHANGED <<canvas, geom, raised>>
       ELSE /\ canvas' = TRUE
            /\ UNCHANGED printed
            /\ IF cols = 0 \/ rows = 0
               THEN \* available_width // grid_cols, available_height // grid_rows
                    /\ raised' = "ZeroDivisionError"
                    /\ pc' = "raised"
                    /\ UNCHANGED geom
               ELSE /\ geom' = Geometry(size, cols, rows, fs, cs, rs, crop)
                    /\ pc' = "loop"
                    /\ UNCHANGED raised
    /\ UNCHANGED <<loopVars, saved>>

OutputSizes == {<<12, 8>>, <<8, 12>>, <<10, 10>>}
FrameSpacings == {0, 1, 5}
Spacings == {0, 1}
GridDims == (0 - 1)..MaxGrid
CollageGravities == {0, 2}

RECURSIVE SeqsUpTo(_, _)
SeqsUpTo(S, k) ==
    IF k = 0 THEN {<<>>}
    ELSE LET shorter == SeqsUpTo(S, k - 1)
         IN  shorter \cup {Append(s, e) : s \in {t \in shorter : Len(t) = k - 1}, e \in S}

PathLists == SeqsUpTo(SourceKinds, MaxShortPaths) \cup SeqsUpTo({"image"}, MaxLongPaths)

CreateCollage ==
    /\ pc = "idle"
    /\ \E paths \in PathLists, size \in OutputSizes,
          cols \in GridDims, rows \in GridDims, fs \in FrameSpacings,
          cs \in Spacings, rs \in Spacings, crop \in BOOLEAN, g \in CollageGravities :
          EnterCollage("create_collage", paths, size, cols, rows, fs, cs, rs, crop, g)
    /\ UNCHANGED native_grid

\* The loops "for row in range(grid_rows): for col in range(grid_cols)" have
\* no iteration left.
LoopDone == grid_rows <= 0 \/ grid_cols <= 0 \/ row >= grid_rows

\* Move to the next (row, col) of the nested loops.
Advance ==
    IF col + 1 < grid_cols
    THEN col' = col + 1 /\ row' = row
    ELSE col' = 0 /\ row' = row + 1

InLoop == pc = "loop" /\ ~LoopDone

\* "if image_index < len(image_paths)" is false: nothing happens in this cell.
CellSkip ==
    /\ InLoop
    /\ ~(image_index < Len(image_paths))
    /\ Advance
    /\ UNCHANGED <<pc, entry, argVars, canvas, geom, native_grid, image_index,
                   loads, pasted, last_paste, printed, raised, saved>>

\* The failed load leaves image_index where it is, so that the same source is
\* tried again for the next cell.
CellLoadNone_NoIncrement ==
    /\ InLoop
    /\ image_index < Len(image_paths)
    /\ open_image(image_paths[image_index + 1]) = "None"
    /\ loads' = Append(loads, <<image_index, row, col>>)
    /\ printed' = printed \cup {"Warning: image not available"}
    /\ Advance
    /\ UNCHANGED <<pc, entry, argVars, canvas, geom, native_grid, image_index,
                   pasted, last_paste, raised, saved>>

\* open_image returns None: "if img" is false, image_index moves on.
CellLoadNone ==
    /\ InLoop
    /\ image_index < Len(image_paths)
    /\ open_image(image_paths[image_index + 1]) = "None"
    /\ loads' = Append(loads, <<image_index, row, col>>)
    /\ printed' = printed \cup {"Warning: image not available"}
    /\ image_index' = image_index + 1
    /\ Advance
    /\ UNCHANGED <<pc, entry, argVars, canvas, geom, native_grid, pasted,
                   last_paste, raised, saved>>

\* open_image lets an exception through: create_collage ends with it.
CellLoadRaise ==
    /\ InLoop
    /\ image_index < Len(image_paths)
    /\ open_image(image_paths[image_index + 1]) = "raise"
    /\ loads' = Append(loads, <<image_index, row, col>>)
    /\ raised' = "UnidentifiedImageError"
    /\ pc' = "raised"
    /\ UNCHANGED <<entry, argVars, canvas, geom, native_grid, image_index, row,
                   col, pasted, last_paste, printed, saved>>

\* The size of the image after the optional square crop (lines 130-132).
\* crop_to_square returns None only for a non-image, which open_image never
\* returns, so the "continue" of line 132 is not taken.
AfterCrop(size) ==
    IF crop_images_to_square THEN crop_to_square(size, crop_gravity).size ELSE size

PositiveBox(box) == box[1] >= 1 /\ box[2] >= 1

\* The image opens but the thumbnail box has a side <= 0: Pillow raises
\* (ZeroDivisionError or ValueError, by version) inside img.thumbnail.
CellThumbnailRaise ==
    /\ InLoop
    /\ image_index < Len(image_paths)
    /\ open_image(image_paths[image_index + 1]) = "image"
    /\ ~PositiveBox(geom.cell_size)
    /\ loads' = Append(loads, <<image_index, row, col>>)
    /\ raised' = "ThumbnailError"
    /\ pc' = "raised"
    /\ UNCHANGED <<entry, argVars, canvas, geom, native_grid, image_index, row,
                   col, pasted, last_paste, printed, saved>>

\* The image opens, is cropped if asked, shrunk to the cell and pasted.
CellPaste ==
    /\ InLoop
    /\ image_index < Len(image_paths)
    /\ open_image(image_paths[image_index + 1]) = "image"
    /\ PositiveBox(geom.cell_size)
    /\ \E size \in ImgSizes :
         \E img \in Thumbnail(AfterCrop(size), geom.cell_size) :
            LET cell_origin_x == geom.grid_origin_x + col * (geom.cell_width + col_spacing)
                cell_origin_y == geom.grid_origin_y + row * (geom.cell_height + row_spacing)
                paste_x == cell_origin_x + PyFloorDiv(geom.cell_width - img[1], 2)
                paste_y == cell_origin_y + PyFloorDiv(geom.cell_height - img[2], 2)
            IN  last_paste' = [src |-> image_index, row |-> row, col |-> col,
                               paste_x |-> paste_x, paste_y |-> paste_y,
                               width |-> img[1], height |-> img[2],
                               cell_origin_x |-> cell_origin_x,
                               cell_origin_y |-> cell_origin_y]
    /\ loads' = Append(loads, <<image_index, row, col>>)
    /\ pasted' = pasted \cup {<<row, col, image_index>>}
    /\ image_index' = image_index + 1
    /\ Advance
    /\ UNCHANGED <<pc, entry, argVars, canvas, geom, native_grid, printed,
                   raised, saved>>

\* Lines 143-147: save, a failure of which is caught and printed.
Save ==
    /\ pc = "loop" /\ LoopDone
    /\ \E ok \in BOOLEAN :
          /\ saved' = ok
          /\ printed' = printed \cup {IF ok THEN "Collage saved successfully"
                                      ELSE "Failed to save collage"}
    /\ pc' = "returned"
    /\ UNCHANGED <<entry, argVars, canvas, geom, native_grid, loopVars, raised>>

(***************************************************************************)
(* create_auto_grid_collage                                                 *)
(***************************************************************************)
\* The solved grid passed on as it is, without the orientation rule.
Orient_NoSwap(grid, size) == grid

\* Lines 190-198: the orientation of the solved grid, <<rows, cols>>.
Orient(grid, size) ==
    LET rows == grid[1]
        cols == grid[2]
        output_width == size[1]
        output_height == size[2]
    IN  IF output_width > output_height /\ rows > cols THEN <<cols, rows>>
        ELSE IF output_height > output_width /\ cols > rows THEN <<cols, rows>>
        ELSE <<rows, cols>>

CreateAutoGridCollage ==
    /\ pc = "idle"
    /\ \E paths \in PathLists, size \in OutputSizes, fs \in FrameSpacings,
          cs \in Spacings, rs \in Spacings, crop \in BOOLEAN, g \in CollageGravities :
          LET grid_info == calc_grid(Len(paths))
          IN  IF Len(paths) = 0 \/ grid_info.kind # "dict"
              THEN \* "No images ..." / "Could not calculate a grid ...": return
                   /\ entry' = "create_auto_grid_collage"
                   /\ image_paths' = paths
                   /\ output_size' = size
                   /\ printed' = printed \cup
                         {IF Len(paths) = 0 THEN "No images to create a collage from."
                          ELSE "Could not calculate a grid"}
                   /\ pc' = "returned"
                   /\ UNCHANGED <<grid_cols, grid_rows, frame_spacing, col_spacing,
                                  row_spacing, crop_images_to_square, crop_gravity,
                                  canvas, geom, native_grid, loopVars, raised, saved>>
              ELSE LET g2 == Orient(grid_info.grid, size)
                   IN  /\ native_grid' = grid_info.grid
                       /\ EnterCollage("create_auto_grid_collage", paths, size,
                                       g2[2], g2[1], fs, cs, rs, crop, g)

(***************************************************************************)
(* Specifications                                                           *)
(***************************************************************************)
GridIdle ==
    /\ n = 0 /\ x = 1 /\ min_error = Infinity /\ result = EmptyDict /\ gpc = "idle"

CropIdle ==
    /\ img_size = <<1, 1>> /\ gravity = 0 /\ crop_out = NoCrop /\ cpc = "idle"

CollageInit ==
    /\ pc = "idle"
    /\ entry = "none"
    /\ image_paths = <<>>
    /\ output_size = <<0, 0>>
    /\ grid_cols = 0
    /\ grid_rows = 0
    /\ frame_spacing = 0
    /\ col_spacing = 0
    /\ row_spacing = 0
    /\ crop_images_to_square = FALSE
    /\ crop_gravity = 0
    /\ canvas = FALSE
    /\ geom = NoGeom
    /\ native_grid = <<0, 0>>
    /\ image_index = 0
    /\ row = 0
    /\ col = 0
    /\ loads = <<>>
    /\ pasted = {}
    /\ last_paste = NoPaste
    /\ printed = {}
    /\ raised = "none"
    /\ saved = FALSE

CollageIdle == CollageInit

Init == GridIdle /\ CropIdle /\ CollageInit

Next ==
    \/ (CreateCollage /\ UNCHANGED <<gridVars, cropVars>>)
    \/ (CreateAutoGridCollage /\ UNCHANGED <<gridVars, cropVars>>)
    \/ (CellSkip /\ UNCHANGED <<gridVars, cropVars>>)
    \/ (CellLoadNone /\ UNCHANGED <<gridVars, cropVars>>)
    \/ (CellLoadRaise /\ UNCHANGED <<gridVars, cropVars>>)
    \/ (CellThumbnailRaise /\ UNCHANGED <<gridVars, cropVars>>)
    \/ (CellPaste /\ UNCHANGED <<gridVars, cropVars>>)
    \/ (Save /\ UNCHANGED <<gridVars, cropVars>>)

Spec == Init /\ [][Next]_vars

InitGrid == GridInit /\ CropIdle /\ CollageIdle

NextGrid ==
    \/ (CalcGridNone /\ UNCHANGED <<cropVars, collageVars>>)
    \/ (CalcGridStep /\ UNCHANGED <<cropVars, collageVars>>)
    \/ (CalcGridReturn /\ UNCHANGED <<cropVars, collageVars>>)

SpecGrid == InitGrid /\ [][NextGrid]_vars

InitCrop == GridIdle /\ CropInit /\ CollageIdle

NextCrop == CropToSquare /\ UNCHANGED <<gridVars, collageVars>>

SpecCrop == InitCrop /\ [][NextCrop]_vars

(***************************************************************************)
(* Properties of calc_grid (SpecGrid)                                       *)
(***************************************************************************)
\* The candidates of the search: x in 1..floor(sqrt(n))+1, SQ and SQ2.
Candidates(k) ==
    {c \in (1..(k + 1)) \X {"SQ", "SQ2"} : (c[1] - 1) * (c[1] - 1) <= k}

Shape(c) == IF c[2] = "SQ" THEN <<c[1], c[1]>> ELSE <<c[1], c[1] + 2>>

\* The error the code attaches to a candidate: n - rows * cols.
ErrorOf(k, c) == k - (Shape(c)[1] * Shape(c)[2])

\* The position of a candidate in the order of evaluation.
OrderOf(c) == (2 * c[1]) + (IF c[2] = "SQ" THEN 0 ELSE 1)

CalcGridDone == gpc = "returned" /\ n >= 1

\* C1 (as claimed): for every n >= 1 the grid returned by calc_grid(n) has
\* rows * cols >= n, and no valid candidate of the search has a smaller error
\* than the returned one.
C1_CapacityCoversN ==
    CalcGridDone =>
        /\ result.kind = "dict"
        /\ result.grid[1] * result.grid[2] >= n
        /\ \A c \in Candidates(n) : ErrorOf(n, c) >= 0 => ErrorOf(n, c) >= result.error

\* C2 (as claimed): calc_grid(8) returns the shape (3, 3) with error 1.
C2_EightGivesThreeByThree ==
    (gpc = "returned" /\ n = 8) => (result.grid = <<3, 3>> /\ result.error = 1)

\* C2 (amended): calc_grid(8) returns the shape (2, 4) with error 0, found by
\* the SQ2 formula at x = 2.
C2_EightGivesTwoByFour ==
    (gpc = "returned" /\ n = 8) =>
        /\ result.kind = "dict"
        /\ result.grid = <<2, 4>>
        /\ result.error = 0
        /\ result.equation = "SQ2"
        /\ result.x = 2

C2_Witness == gpc = "returned" /\ n = 8 /\ result.grid = <<2, 4>>

\* C9: calc_grid returns the valid candidate (error = n - rows * cols >= 0) of
\* smallest error among x = 1..floor(sqrt(n))+1, SQ before SQ2; a candidate of
\* equal error is one evaluated no earlier than the returned one; the fields
\* error, equation, x and grid all describe the returned candidate.
C9_FirstSmallestValidCandidate ==
    CalcGridDone =>
        LET w == <<result.x, result.equation>>
        IN  /\ result.kind = "dict"
            /\ w \in Candidates(n)
            /\ result.grid = Shape(w)
            /\ result.error = ErrorOf(n, w)
            /\ result.error = n - (result.grid[1] * result.grid[2])
            /\ result.error >= 0
            /\ result.error = min_error
            /\ \A c \in Candidates(n) :
                  ErrorOf(n, c) >= 0 =>
                      \/ ErrorOf(n, c) > result.error
                      \/ (ErrorOf(n, c) = result.error /\ OrderOf(c) >= OrderOf(w))

C9_Witness ==
    /\ gpc = "returned" /\ n = 24
    /\ result.equation = "SQ2" /\ result.grid = <<4, 6>> /\ result.error = 0
    /\ x = 6

(***************************************************************************)
(* Properties of crop_to_square (SpecCrop)                                  *)
(***************************************************************************)
\* floor(d * g) for the gravity g / GravityDen clamped to [0, 1]
FloorOffset(d, g) ==
    LET gc == IF g < 0 THEN 0 ELSE IF g > GravityDen THEN GravityDen ELSE g
    IN  (d * gc) \div GravityDen

\* C6: for an image w x h with w # h and any gravity g, crop_to_square uses a
\* box of side min(w, h) inside the image: (floor((w-h)*g), 0,
\* floor((w-h)*g)+h, h) for w > h and (0, floor((h-w)*g), w, floor((h-w)*g)+w)
\* for h > w, with g clamped to [0, 1]; 600x800 gives (0,0,600,600) at g = 0,
\* (0,100,600,700) at g = 0.5 and (0,200,600,800) at g = 1; a square image is
\* returned unchanged.
C6_CropBox ==
    cpc = "returned" =>
        LET w == img_size[1]
            h == img_size[2]
            box == crop_out.box
        IN  /\ (w = h) => crop_out.kind = "same" /\ crop_out.size = img_size
            /\ (w # h) =>
                  /\ crop_out.kind = "crop"
                  /\ 0 <= box[1] /\ box[1] < box[3] /\ box[3] <= w
                  /\ 0 <= box[2] /\ box[2] < box[4] /\ box[4] <= h
                  /\ box[3] - box[1] = Min(w, h)
                  /\ box[4] - box[2] = Min(w, h)
                  /\ crop_out.size = <<Min(w, h), Min(w, h)>>
            /\ (w > h) =>
                  box = <<FloorOffset(w - h, gravity), 0, FloorOffset(w - h, gravity) + h, h>>
            /\ (h > w) =>
                  box = <<0, FloorOffset(h - w, gravity), w, FloorOffset(h - w, gravity) + w>>
            /\ (img_size = <<600, 800>> /\ gravity <= 0) => box = <<0, 0, 600, 600>>
            /\ (img_size = <<600, 800>> /\ 2 * gravity = GravityDen) =>
                  box = <<0, 100, 600, 700>>
            /\ (img_size = <<600, 800>> /\ gravity >= GravityDen) =>
                  box = <<0, 200, 600, 800>>

C6_Witness ==
    /\ cpc = "returned" /\ img_size = <<600, 800>> /\ gravity > GravityDen
    /\ crop_out.box = <<0, 200, 600, 800>>

(***************************************************************************)
(* Properties of create_collage and create_auto_grid_collage (Spec)         *)
(***************************************************************************)
Called == entry # "none"

Indices(kind) == {k \in 0..(Len(image_paths) - 1) : image_paths[k + 1] = kind}

\* The usable width and height of lines 102-103.
UsableWidth == output_size[1] - (2 * frame_spacing) - ((grid_cols - 1) * col_spacing)
UsableHeight == output_size[2] - (2 * frame_spacing) - ((grid_rows - 1) * row_spacing)

\* create_collage was reached with a non-empty list.
InCollage == Called /\ canvas

\* C3: with N+1 paths of which exactly one cannot be loaded (open_image
\* returns None) and the others load, a grid of at least N+1 cells and cells
\* of positive size, create_collage does not raise, the N loadable images are
\* each pasted into their own cell k -> (k div cols, k mod cols), and the cell
\* of the unloadable path gets no paste: later sources are not shifted.
C3_OneUnloadableSource ==
    (/\ InCollage
     /\ Cardinality(Indices("not_found")) = 1
     /\ Indices("unidentified") = {}
     /\ grid_cols >= 1 /\ grid_rows >= 1
     /\ grid_cols * grid_rows >= Len(image_paths)
     /\ UsableWidth >= grid_cols /\ UsableHeight >= grid_rows)
    =>  /\ raised = "none" /\ pc # "raised"
        /\ pasted \subseteq {<<k \div grid_cols, k % grid_cols, k>> : k \in Indices("image")}
        /\ pc = "returned" =>
              /\ pasted = {<<k \div grid_cols, k % grid_cols, k>> : k \in Indices("image")}
              /\ Cardinality({<<p[1], p[2]>> : p \in pasted}) = Len(image_paths) - 1
              /\ \A k \in Indices("not_found") :
                    \A p \in pasted : <<p[1], p[2]>> # <<k \div grid_cols, k % grid_cols>>

C3_Witness ==
    /\ pc = "returned" /\ saved /\ raised = "none"
    /\ image_paths = <<"image", "not_found", "image">>
    /\ grid_cols = 2 /\ grid_rows = 2
    /\ pasted = {<<0, 0, 0>>, <<1, 0, 2>>}

\* C4 (as claimed): create_collage with an empty image_paths fails with a
\* ConfigurationError reported to the caller, creating no canvas and saving
\* nothing.
C4_EmptyRaisesConfigurationError ==
    (Called /\ image_paths = <<>>) =>
        (raised = "ConfigurationError" /\ ~canvas /\ ~saved)

\* C4 (amended): create_collage (and create_auto_grid_collage) with an empty
\* image_paths prints an error message and returns normally, raising nothing;
\* no canvas is created, no image is loaded and save is never reached.
C4_EmptyPrintsAndReturns ==
    (Called /\ image_paths = <<>>) =>
        /\ pc = "returned"
        /\ raised = "none"
        /\ entry = "create_collage" => printed = {"Error: No image paths provided."}
        /\ entry = "create_auto_grid_collage" =>
              printed = {"No images to create a collage from."}
        /\ ~canvas /\ ~saved
        /\ loads = <<>> /\ pasted = {}

C4_Witness ==
    /\ entry = "create_collage" /\ image_paths = <<>> /\ pc = "returned"
    /\ printed = {"Error: No image paths provided."}

\* C5 (as claimed): when the usable width or height is <= 0 or a grid
\* dimension is non-positive, create_collage aborts before any image is
\* loaded or pasted and before the output is saved.
C5_DegenerateGeometryRejected ==
    (/\ entry = "create_collage"
     /\ image_paths # <<>>
     /\ (UsableWidth <= 0 \/ UsableHeight <= 0 \/ grid_cols <= 0 \/ grid_rows <= 0))
    =>  (loads = <<>> /\ pasted = {} /\ ~saved)

\* C7: create_auto_grid_collage passes cols >= rows on a canvas wider than
\* tall, rows >= cols on a canvas taller than wide and calc_grid's native
\* (rows, cols) on a square canvas; a solved (2, 4) stays (2, 4) on a
\* landscape canvas and becomes (4, 2) on a portrait one; rows * cols is that
\* of the solved grid.
C7_Orientation ==
    (entry = "create_auto_grid_collage" /\ image_paths # <<>>) =>
        LET output_width == output_size[1]
            output_height == output_size[2]
        IN  /\ native_grid = calc_grid(Len(image_paths)).grid
            /\ output_width > output_height => grid_cols >= grid_rows
            /\ output_height > output_width => grid_rows >= grid_cols
            /\ output_width = output_height => <<grid_rows, grid_cols>> = native_grid
            /\ {grid_rows, grid_cols} = {native_grid[1], native_grid[2]}
            /\ grid_rows * grid_cols = native_grid[1] * native_grid[2]
            /\ (native_grid = <<2, 4>> /\ output_width > output_height) =>
                  <<grid_rows, grid_cols>> = <<2, 4>>
            /\ (native_grid = <<2, 4>> /\ output_height > output_width) =>
                  <<grid_rows, grid_cols>> = <<4, 2>>

C7_Witness ==
    /\ entry = "create_auto_grid_collage" /\ Len(image_paths) = 8
    /\ output_size[2] > output_size[1]
    /\ native_grid = <<2, 4>> /\ grid_rows = 4 /\ grid_cols = 2
    /\ pc = "returned" /\ saved

\* C8: the k-th call of open_image is for source k and for the cell
\* (k div grid_cols, k mod grid_cols), so sources are loaded once each, in
\* input order, in row-major cell order; a paste for source k is in that cell;
\* no source of index >= grid_rows * grid_cols is loaded and no cell of index
\* >= len(image_paths) is touched.
C8_RowMajorInputOrder ==
    InCollage =>
        /\ \A i \in 1..Len(loads) :
              /\ grid_cols >= 1 /\ grid_rows >= 1
              /\ loads[i] = <<i - 1, (i - 1) \div grid_cols, (i - 1) % grid_cols>>
              /\ i - 1 < Len(image_paths)
              /\ i - 1 < grid_rows * grid_cols
        /\ \A p \in pasted :
              /\ \E i \in 1..Len(loads) : loads[i] = <<p[3], p[1], p[2]>>
              /\ (p[1] * grid_cols) + p[2] = p[3]
              /\ p[3] < Len(image_paths)
        /\ Len(loads) <= image_index + 1
        /\ (pc = "loop" /\ ~LoopDone) =>
              /\ image_index = Min((row * grid_cols) + col, Len(image_paths))
              /\ Len(loads) = image_index
        /\ (pc = "returned" /\ grid_cols >= 1 /\ grid_rows >= 1) =>
              /\ row = grid_rows /\ col = 0
              /\ Len(loads) = Min(Len(image_paths), grid_rows * grid_cols)

C8_Witness ==
    /\ pc = "returned"
    /\ image_paths = <<"image", "not_found", "image">>
    /\ crop_images_to_square
    /\ grid_cols = 1 /\ grid_rows = 2
    /\ loads = <<<<0, 0, 0>>, <<1, 1, 0>>>>
    /\ pasted = {<<0, 0, 0>>}

\* The rectangle of cell (r, c): <<left, top, right, bottom>>.
CellRect(r, c) ==
    LET left == geom.grid_origin_x + (c * (geom.cell_width + col_spacing))
        top == geom.grid_origin_y + (r * (geom.cell_height + row_spacing))
    IN  <<left, top, left + geom.cell_width, top + geom.cell_height>>

Disjoint(a, b) == a[3] <= b[1] \/ b[3] <= a[1] \/ a[4] <= b[2] \/ b[4] <= a[2]

GridCells == (0..(grid_rows - 1)) \X (0..(grid_cols - 1))

\* C10: when both usable dimensions are at least the grid dimension, the grid
\* block lies at least frame_spacing from every canvas edge, distinct cells
\* have disjoint rectangles, and each pasted image lies inside its own cell
\* and so inside the canvas.
C10_PasteInsideCell ==
    (/\ InCollage
     /\ grid_cols >= 1 /\ grid_rows >= 1
     /\ UsableWidth >= grid_cols /\ UsableHeight >= grid_rows)
    =>  LET first == CellRect(0, 0)
            last == CellRect(grid_rows - 1, grid_cols - 1)
        IN  /\ geom.cell_width >= 1 /\ geom.cell_height >= 1
            /\ first[1] >= frame_spacing /\ first[2] >= frame_spacing
            /\ last[3] <= output_size[1] - frame_spacing
            /\ last[4] <= output_size[2] - frame_spacing
            /\ \A a \in GridCells : \A b \in GridCells :
                  a # b => Disjoint(CellRect(a[1], a[2]), CellRect(b[1], b[2]))
            /\ last_paste # NoPaste =>
                  LET cell == CellRect(last_paste.row, last_paste.col)
                  IN  /\ last_paste.cell_origin_x = cell[1]
                      /\ last_paste.cell_origin_y = cell[2]
                      /\ last_paste.width >= 1 /\ last_paste.height >= 1
                      /\ last_paste.paste_x >= cell[1]
                      /\ last_paste.paste_x + last_paste.width <= cell[3]
                      /\ last_paste.paste_y >= cell[2]
                      /\ last_paste.paste_y + last_paste.height <= cell[4]
                      /\ last_paste.paste_x >= 0 /\ last_paste.paste_y >= 0
                      /\ last_paste.paste_x + last_paste.width <= output_size[1]
                      /\ last_paste.paste_y + last_paste.height <= output_size[2]

C10_Witness ==
    /\ pc = "loop" /\ crop_images_to_square
    /\ grid_cols = 2 /\ grid_rows = 2 /\ frame_spacing = 1 /\ col_spacing = 1
    /\ last_paste.row = 1 /\ last_paste.col = 1
    /\ last_paste.width < geom.cell_width

====
